---------------------------- MODULE Spec2Model ----------------------------
(***************************************************************************)
(* The Express API service of src/server/index.js as a state machine.      *)
(*                                                                         *)
(* State: the in-memory `users` array and the requests the process has     *)
(* received, each with the position of its handler and the responses sent  *)
(* for it.  Node runs one handler at a time to completion, so every        *)
(* synchronous handler is one atomic action; the async handler of          *)
(* /api/async-operation is two actions, split at its `await`.              *)
(*                                                                         *)
(* Text (names, route parameters, paths, messages) is a sequence of        *)
(* tokens, so that concatenation, decoding and path resolution are         *)
(* computed rather than assumed.                                           *)
(*                                                                         *)
(* The React client of src/client/src/App.jsx is the record `client`: the  *)
(* three hook states, the updates queued since the last render, the        *)
(* objects the states refer to, the rendered view and the position of      *)
(* fetchUsers.  Spec runs the service alone; SpecClient runs the client    *)
(* against whatever answers its fetch.                                     *)
(***************************************************************************)
EXTENDS Integers, Sequences, FiniteSets, TLC

VARIABLES users, reqs, production, client

vars == <<users, reqs, production, client>>

\* Number of requests the process receives in one run.
MaxReq == 2

-----------------------------------------------------------------------------
(* JavaScript values *)

\* The value `undefined`: a text no request or file can contain.
Undefined == <<"\\undefined">>

\* obj.key / destructuring: a property the object lacks reads as undefined.
Prop(obj, key) == IF key \in DOMAIN obj THEN obj[key] ELSE Undefined

\* JSON.stringify as res.json applies it to an object: properties whose
\* value is undefined are left out.  `id` holds a number, never undefined.
JSON(obj) ==
    LET kept == {k \in DOMAIN obj : IF k = "id" THEN TRUE ELSE obj[k] # Undefined}
    IN  [k \in kept |-> obj[k]]

\* JSON.stringify of an array of objects.
JSONArray(arr) == [i \in 1..Len(arr) |-> JSON(arr[i])]

Digits == {"0", "1", "2", "3", "4", "5", "6", "7", "8", "9"}

DigitValue(d) == CHOOSE n \in 0..9 : ToString(n) = d

IsNumeric(s) == Len(s) > 0 /\ \A i \in 1..Len(s) : s[i] \in Digits

RECURSIVE StringToNumber(_)
\* ToNumber on a string of decimal digits ("01" is 1).
StringToNumber(s) ==
    IF Len(s) = 0 THEN 0
    ELSE 10 * StringToNumber(SubSeq(s, 1, Len(s) - 1)) + DigitValue(s[Len(s)])

\* number == string: the string is converted with ToNumber; a string that
\* is not a number converts to NaN, which equals nothing.
LooseEquals(n, s) == IsNumeric(s) /\ StringToNumber(s) = n

-----------------------------------------------------------------------------
(* The users array *)

SeedUsers ==
    << [id |-> 1, name |-> <<"John">>, password |-> <<"password123">>,
        email |-> <<"john@test.com">>],
       [id |-> 2, name |-> <<"Jane">>, password |-> <<"admin">>,
        email |-> <<"jane@test.com">>] >>

\* users.find((u) => u.id == id): the index of the first match, 0 if none.
FindIndex(us, id) ==
    LET hits == {i \in 1..Len(us) : LooseEquals(us[i].id, id)}
    IN  IF hits = {} THEN 0 ELSE CHOOSE i \in hits : \A j \in hits : i <= j

\* A variant of the object literal below that lets the body's own id through.
NewUserIdFromBody(us, body) ==
    [id |-> IF "id" \in DOMAIN body THEN body["id"] ELSE Len(us) + 1,
     name |-> Prop(body, "name"),
     email |-> Prop(body, "email"),
     password |-> Prop(body, "password")]
\* A variant of the object literal below that fills a missing field with
\* the empty text.
NewUserDefaults(us, body) ==
    [id |-> Len(us) + 1,
     name |-> IF "name" \in DOMAIN body THEN body["name"] ELSE <<>>,
     email |-> IF "email" \in DOMAIN body THEN body["email"] ELSE <<>>,
     password |-> IF "password" \in DOMAIN body THEN body["password"] ELSE <<>>]
\* The object literal of the POST handler.
NewUser(us, body) ==
    [id |-> Len(us) + 1,
     name |-> Prop(body, "name"),
     email |-> Prop(body, "email"),
     password |-> Prop(body, "password")]

\* A variant of the push below that leaves the array as it was.
PushLost(us, u) == us
\* A variant of the push below that puts the record at the front.
PushFront(us, u) == <<u>> \o us
\* users.push(newUser)
Push(us, u) == Append(us, u)

-----------------------------------------------------------------------------
(* Responses *)

NoBody == [k \in {} |-> <<>>]

\* res.json(body) with the status set so far (200 unless res.status ran).
JsonResponse(status, body) == [status |-> status, ctype |-> "json", body |-> body]

\* res.send(buffer)
SendResponse(data) == [status |-> 200, ctype |-> "bytes", body |-> data]

HelloResponse == JsonResponse(200, [message |-> <<"Hello from API!">>])

\* A variant of the found response below that withholds the password.
UserFoundResponseNoPassword(user) ==
    JsonResponse(200, JSON([id |-> user.id, name |-> user.name, email |-> user.email]))
\* res.json(user)
UserFoundResponse(user) == JsonResponse(200, JSON(user))

\* A variant of the not-found response below that sets status 404.
UserNotFoundResponse404 == JsonResponse(404, [error |-> <<"User not found">>])
\* res.json({ error: "User not found" })
UserNotFoundResponse == JsonResponse(200, [error |-> <<"User not found">>])

\* A variant of the response below that leaves the passwords out.
AllUsersResponseNoPasswords(us) ==
    JsonResponse(200, [i \in 1..Len(us) |->
                          JSON([id |-> us[i].id, name |-> us[i].name, email |-> us[i].email])])
\* res.json(users)
AllUsersResponse(us) == JsonResponse(200, JSONArray(us))

-----------------------------------------------------------------------------
(* Paths and the file system under the process's working directory *)

\* What Express hands the handler as req.params.filename: the raw path
\* segment (it holds no "/") after decodeURIComponent.
DecodeToken(t) ==
    CASE t = "%2F" -> "/"
      [] t = "%2E" -> "."
      [] OTHER -> t

DecodeURIComponent(s) == [i \in 1..Len(s) |-> DecodeToken(s[i])]

\* The template literal `./uploads/${filename}`.
UploadPath(filename) == <<".", "/", "uploads", "/">> \o filename

RECURSIVE Segments(_)
\* The path's components, split at "/" (a component is a text).
Segments(path) ==
    IF \A i \in 1..Len(path) : path[i] # "/" THEN <<path>>
    ELSE LET cut == CHOOSE i \in 1..Len(path) :
                        path[i] = "/" /\ \A j \in 1..(i - 1) : path[j] # "/"
         IN  <<SubSeq(path, 1, cut - 1)>> \o Segments(SubSeq(path, cut + 1, Len(path)))

RECURSIVE Normalize(_)
\* The location a list of components names, relative to the working
\* directory: "" and "." stay, ".." goes to the parent.
Normalize(segs) ==
    IF Len(segs) = 0 THEN <<>>
    ELSE LET cur == Normalize(SubSeq(segs, 1, Len(segs) - 1))
             seg == segs[Len(segs)]
         IN  IF seg = <<>> \/ seg = <<".">> THEN cur
             ELSE IF seg = <<".", ".">>
                  THEN IF Len(cur) = 0 \/ cur[Len(cur)] = <<".", ".">>
                       THEN Append(cur, seg)
                       ELSE SubSeq(cur, 1, Len(cur) - 1)
                  ELSE Append(cur, seg)

\* The disk: two files, one inside ./uploads and one beside it.
FsFilePaths == { <<<<"uploads">>, <<"a">>>>, <<<<"s">>>> }

FsDirPaths == { <<>>, <<<<"uploads">>>>, <<<<".", ".">>>> }

FileContent(loc) ==
    IF loc = <<<<"uploads">>, <<"a">>>> THEN <<"contents of uploads/a">>
    ELSE <<"contents of s">>

UploadsDir == <<<<"uploads">>>>

\* loc lies inside ./uploads.
InsideUploads(loc) ==
    Len(loc) >= Len(UploadsDir) /\ SubSeq(loc, 1, Len(UploadsDir)) = UploadsDir

\* The Error object of a failed fs call.  open() fails with the path it
\* was given; read() on a directory fails without one.
FsError(code, syscall, path) ==
    LET message == IF path = Undefined
                   THEN <<code, ": ", syscall>>
                   ELSE <<code, ": ", syscall, " '">> \o path \o <<"'">>
    IN  [message |-> message,
         stack |-> <<"Error: ">> \o message \o <<"\n    at Object.readFileSync (node:fs)">>,
         path |-> path]

\* fs.readFileSync(path): the file's bytes, or a thrown Error.
ReadFileSync(path) ==
    LET segs == Segments(path)
        loc == Normalize(segs)
        reachable == \A i \in 0..(Len(segs) - 1) :
                         Normalize(SubSeq(segs, 1, i)) \in FsDirPaths
    IN  IF reachable /\ loc \in FsFilePaths
        THEN [ok |-> TRUE, data |-> FileContent(loc)]
        ELSE IF reachable /\ loc \in FsDirPaths
        THEN [ok |-> FALSE, error |-> FsError("EISDIR", "illegal operation on a directory, read", Undefined)]
        ELSE IF \E i \in 0..(Len(segs) - 1) : Normalize(SubSeq(segs, 1, i)) \in FsFilePaths
        THEN [ok |-> FALSE, error |-> FsError("ENOTDIR", "not a directory, open", path)]
        ELSE [ok |-> FALSE, error |-> FsError("ENOENT", "no such file or directory, open", path)]

\* A variant of the catch block below that answers with a fixed message.
FileErrorResponseGeneric(error) ==
    JsonResponse(500, JSON([error |-> <<"Internal Server Error">>]))
\* The catch block of the file handler.
FileErrorResponse(error) ==
    JsonResponse(500, JSON([error |-> error.message,
                            stack |-> error.stack,
                            path |-> error.path]))

\* The try block of the file handler.
FileResponse(filename) ==
    LET out == ReadFileSync(UploadPath(filename))
    IN  IF out.ok THEN SendResponse(out.data) ELSE FileErrorResponse(out.error)

-----------------------------------------------------------------------------
(* The async operation *)

\* Math.random(), in tenths.
RandomValues == {0, 5, 9}

\* someAsyncOperation: the settled state of the promise it returns.
SomeAsyncOperation(rnd) ==
    IF rnd > 5
    THEN [state |-> "rejected", value |-> [message |-> <<"Random service failure">>]]
    ELSE [state |-> "fulfilled", value |-> [data |-> <<"Success">>]]

NoPromise == [state |-> "none", value |-> NoBody]

-----------------------------------------------------------------------------
(* The client: values *)

\* Counter clicks and Add User clicks in one run.
MaxClicks == 2

MaxAdds == 2

\* A JavaScript array, and any other object, as a state or a heap cell
\* holds it.
ArrayValue(items) == [type |-> "array", items |-> items, fields |-> NoBody]

ObjectValue(fields) == [type |-> "object", items |-> <<>>, fields |-> fields]

\* What the component shows: nothing before it is mounted and after a
\* render has thrown.
BlankView == [count |-> 0, loading |-> FALSE, names |-> <<>>]

\* useState(0), useState([]), useState(false), before the first render.
\* `usersRef` is the object the users state refers to, a cell of `heap`.
InitialClient ==
    [life |-> "unmounted",
     count |-> 0,
     usersRef |-> 1,
     loading |-> FALSE,
     heap |-> <<ArrayValue(<<>>)>>,
     queue |-> <<>>,
     view |-> BlankView,
     fetchPc |-> "idle",
     response |-> 0,
     sent |-> <<>>,
     clicks |-> 0,
     adds |-> 0]

-----------------------------------------------------------------------------
(* Requests *)

Kinds == {"hello", "getUser", "postUser", "getFile", "asyncOperation", "allUsers"}

\* Values of the :id route parameter.
IdParams == { <<"1">>, <<"0", "1">>, <<"3">>, <<"0">>, <<"1", "x">> }

\* JSON bodies of POST /api/users, as express.json() parses them.
Bodies ==
    { [name |-> <<"Ann">>, email |-> <<"ann@test.com">>, password |-> <<"pw">>],
      [name |-> <<"John">>, email |-> <<"john@test.com">>, password |-> <<"pw">>],
      [name |-> <<"Ann">>, email |-> <<"ann@test.com">>],
      [id |-> 1, password |-> <<"pw">>],
      NoBody }

\* Values of the :filename route parameter as they appear in the URL.
FileNames ==
    { <<"a">>, <<"b">>, <<".", "%2F", "a">>, <<".", ".">>, <<".", ".", "%2F", "s">> }

ParamsOf(kind) ==
    CASE kind = "getUser" -> IdParams
      [] kind = "getFile" -> FileNames
      [] OTHER -> {<<>>}

BodiesOf(kind) == IF kind = "postUser" THEN Bodies ELSE {NoBody}

\* A request the process has received and not yet started to handle.
NewRequest(kind, param, body) ==
    [kind |-> kind, param |-> param, body |-> body, pc |-> "pending",
     resp |-> <<>>, promise |-> NoPromise, opened |-> Undefined]

Pending(r, kind) ==
    r \in 1..Len(reqs) /\ reqs[r].kind = kind /\ reqs[r].pc = "pending"

\* The handler of request r sends `response` and returns.
Respond(r, response) ==
    reqs' = [reqs EXCEPT ![r].pc = "done", ![r].resp = Append(@, response)]

Init ==
    /\ users = SeedUsers
    /\ reqs = <<>>
    /\ production \in BOOLEAN
    /\ client = InitialClient

\* A request arrives; Express has matched its route and parsed its body.
Receive ==
    /\ Len(reqs) < MaxReq
    /\ \E kind \in Kinds : \E param \in ParamsOf(kind) : \E body \in BodiesOf(kind) :
           reqs' = Append(reqs, NewRequest(kind, param, body))
    /\ UNCHANGED <<users, production, client>>

Hello ==
    \E r \in 1..Len(reqs) :
        /\ Pending(r, "hello")
        /\ Respond(r, HelloResponse)
        /\ UNCHANGED <<users, production, client>>

GetUser ==
    \E r \in 1..Len(reqs) :
        /\ Pending(r, "getUser")
        /\ LET i == FindIndex(users, reqs[r].param)
           IN  IF i # 0
               THEN Respond(r, UserFoundResponse(users[i]))
               ELSE Respond(r, UserNotFoundResponse)
        /\ UNCHANGED <<users, production, client>>

PostUser ==
    \E r \in 1..Len(reqs) :
        /\ Pending(r, "postUser")
        /\ LET newUser == NewUser(users, reqs[r].body)
           IN  /\ users' = Push(users, newUser)
               /\ Respond(r, JsonResponse(200, JSON(newUser)))
        /\ UNCHANGED <<production, client>>

GetFile ==
    \E r \in 1..Len(reqs) :
        /\ Pending(r, "getFile")
        /\ LET filename == DecodeURIComponent(reqs[r].param)
           IN  reqs' = [reqs EXCEPT ![r].pc = "done",
                                    ![r].opened = UploadPath(filename),
                                    ![r].resp = Append(@, FileResponse(filename))]
        /\ UNCHANGED <<users, production, client>>

\* The async handler up to its await: someAsyncOperation has run and
\* returned a settled promise; the handler is suspended on it.
AsyncOperation ==
    \E r \in 1..Len(reqs) : \E rnd \in RandomValues :
        /\ Pending(r, "asyncOperation")
        /\ reqs' = [reqs EXCEPT ![r].pc = "awaiting",
                                ![r].promise = SomeAsyncOperation(rnd)]
        /\ UNCHANGED <<users, production, client>>

\* A variant of the resumption below that catches the exception and
\* answers with status 500.
AfterAwaitCaught(req) ==
    IF req.promise.state = "fulfilled"
    THEN [req EXCEPT !.pc = "done",
                     !.resp = Append(@, JsonResponse(200, JSON(req.promise.value)))]
    ELSE [req EXCEPT !.pc = "done",
                     !.resp = Append(@, JsonResponse(500, JSON(req.promise.value)))]
\* `const result = await ...; res.json(result)`: the request once the
\* handler has resumed: with the value, which it sends; or with the
\* exception, which ends the handler before res.json.
AfterAwait(req) ==
    IF req.promise.state = "fulfilled"
    THEN [req EXCEPT !.pc = "done",
                     !.resp = Append(@, JsonResponse(200, JSON(req.promise.value)))]
    ELSE [req EXCEPT !.pc = "rejected"]

AsyncOperationResume ==
    \E r \in 1..Len(reqs) :
        /\ reqs[r].kind = "asyncOperation" /\ reqs[r].pc = "awaiting"
        /\ reqs' = [reqs EXCEPT ![r] = AfterAwait(reqs[r])]
        /\ UNCHANGED <<users, production, client>>

\* A variant of the handler below that reverses the array in place before
\* sending it.
AllUsersReversing ==
    \E r \in 1..Len(reqs) :
        /\ Pending(r, "allUsers")
        /\ users' = [i \in 1..Len(users) |-> users[Len(users) + 1 - i]]
        /\ Respond(r, AllUsersResponse(users'))
        /\ UNCHANGED <<production, client>>
AllUsers ==
    \E r \in 1..Len(reqs) :
        /\ Pending(r, "allUsers")
        /\ Respond(r, AllUsersResponse(users))
        /\ UNCHANGED <<users, production, client>>

Next ==
    \/ Receive
    \/ Hello
    \/ GetUser
    \/ PostUser
    \/ GetFile
    \/ AsyncOperation
    \/ AsyncOperationResume
    \/ AllUsers

Spec == Init /\ [][Next]_vars

-----------------------------------------------------------------------------
(* The client: state updates and rendering *)

\* The three hook states as one value.
HookState(c) == [count |-> c.count, usersRef |-> c.usersRef, loading |-> c.loading]

\* The calls of the state setters, as React queues them.
IncCount == [hook |-> "count", ref |-> 0, flag |-> FALSE]

SetUsers(ref) == [hook |-> "users", ref |-> ref, flag |-> FALSE]

SetLoading(flag) == [hook |-> "loading", ref |-> 0, flag |-> flag]

\* One queued update applied to the hook states; setCount is given the
\* updater (count) => count + 1.
ApplyUpdate(st, u) ==
    CASE u.hook = "count" -> [st EXCEPT !.count = @ + 1]
      [] u.hook = "users" -> [st EXCEPT !.usersRef = u.ref]
      [] u.hook = "loading" -> [st EXCEPT !.loading = u.flag]

RECURSIVE ReduceCollapsing(_, _)
\* A variant of the reduction below that applies a call repeated within
\* one batch once.
ReduceCollapsing(st, queue) ==
    IF Len(queue) = 0 THEN st
    ELSE IF Len(queue) >= 2 /\ queue[1] = queue[2]
    THEN ReduceCollapsing(st, SubSeq(queue, 2, Len(queue)))
    ELSE ReduceCollapsing(ApplyUpdate(st, queue[1]), SubSeq(queue, 2, Len(queue)))
RECURSIVE Reduce(_, _)
\* The queued updates applied in the order of the calls.
Reduce(st, queue) ==
    IF Len(queue) = 0 THEN st
    ELSE Reduce(ApplyUpdate(st, queue[1]), SubSeq(queue, 2, Len(queue)))

\* The hook states the next render will see.
PendingState(c) == Reduce(HookState(c), c.queue)

\* users.map is defined: the users state refers to an array.
CanRender(st, heap) == heap[st.usersRef].type = "array"

\* The returned JSX: the counter button, the loading line and one row
\* (name and Add User button) per element of users.
RenderOutput(st, heap) ==
    LET items == heap[st.usersRef].items
    IN  [count |-> st.count,
         loading |-> st.loading,
         names |-> [i \in 1..Len(items) |-> Prop(items[i], "name")]]

\* A render pass over the queued updates: React keeps the committed
\* output when no state changed (a state is compared by identity, so the
\* same array is the same state whatever it holds now); otherwise it runs
\* App again and commits the output, or unmounts the tree when App throws.
Render(c) ==
    LET st == PendingState(c)
    IN  IF st = HookState(c)
        THEN [c EXCEPT !.queue = <<>>]
        ELSE IF CanRender(st, c.heap)
        THEN [c EXCEPT !.count = st.count, !.usersRef = st.usersRef,
                       !.loading = st.loading, !.queue = <<>>,
                       !.view = RenderOutput(st, c.heap)]
        ELSE [c EXCEPT !.life = "crashed", !.queue = <<>>, !.view = BlankView]

-----------------------------------------------------------------------------
(* The client: fetchUsers and addUser *)

RECURSIVE NumberText(_)
\* A number in a template literal.
NumberText(n) ==
    IF n < 10 THEN <<ToString(n)>>
    ELSE NumberText(n \div 10) \o <<ToString(n % 10)>>

\* `/api/users/${userId}`
FetchUrl(userId) == <<"/api/users/">> \o NumberText(userId)

\* A page that is not JSON, as a server that does not know the route
\* sends it.
HtmlPage == SendResponse(<<"<!doctype html>">>)

\* What may answer the fetch, with the kind of value its body parses to:
\* the two bodies of GET /api/users/:id, a JSON array of users, a page.
Answers ==
    << [response |-> UserNotFoundResponse, root |-> "object"],
       [response |-> UserFoundResponse(SeedUsers[1]), root |-> "object"],
       [response |-> AllUsersResponse(SeedUsers), root |-> "array"],
       [response |-> HtmlPage, root |-> "none"] >>

\* response.json() succeeds.
IsJson(answer) == answer.response.ctype = "json" /\ answer.root # "none"

\* The value response.json() resolves to.
ResponseJson(answer) ==
    IF answer.root = "array"
    THEN ArrayValue(answer.response.body)
    ELSE ObjectValue(answer.response.body)

\* fetchUsers up to `await fetch(...)`.
FetchUsersStart(c, userId) ==
    [c EXCEPT !.queue = Append(@, SetLoading(TRUE)),
              !.sent = Append(@, FetchUrl(userId)),
              !.fetchPc = "fetching"]

\* A variant of the catch below that also empties the list.
FetchUsersCatchResets(c) ==
    [c EXCEPT !.heap = Append(@, ArrayValue(<<>>)),
              !.queue = @ \o <<SetUsers(Len(c.heap) + 1), SetLoading(FALSE)>>,
              !.fetchPc = "settled"]
\* fetchUsers from the empty catch block on: `catch (error) {}` and
\* setLoading(false).
FetchUsersCatch(c) ==
    [c EXCEPT !.queue = Append(@, SetLoading(FALSE)),
              !.fetchPc = "settled"]

\* A variant of the success path below that leaves loading set.
FetchUsersLoadingStays(c, data) ==
    [c EXCEPT !.heap = Append(@, data),
              !.queue = Append(@, SetUsers(Len(c.heap) + 1)),
              !.fetchPc = "settled"]
\* fetchUsers after `await response.json()`: setUsers(data) and
\* setLoading(false).
FetchUsersData(c, data) ==
    [c EXCEPT !.heap = Append(@, data),
              !.queue = @ \o <<SetUsers(Len(c.heap) + 1), SetLoading(FALSE)>>,
              !.fetchPc = "settled"]

\* Date.now(), counted from some instant.
TimeValues == {1000, 1001}

\* addUser(newUser) as the rendered button calls it: `users` is the users
\* state of the render that made the button.
AddUserCall(c, newUser) ==
    [c EXCEPT !.heap[c.usersRef].items = Append(@, newUser),
              !.queue = Append(@, SetUsers(c.usersRef)),
              !.adds = @ + 1]

-----------------------------------------------------------------------------
(* The client: actions *)

\* The page is on screen: the component has rendered and nothing threw.
Alive == client.life \in {"rendered", "mounted"}

\* The first render and its commit.
Mount ==
    /\ client.life = "unmounted"
    /\ client' = [client EXCEPT !.life = "rendered",
                                !.view = RenderOutput(HookState(client), client.heap)]
    /\ UNCHANGED <<users, reqs, production>>

\* A variant of the effect below that reads the count with the queued
\* clicks applied.
MountEffectLatestCount ==
    /\ client.life = "rendered"
    /\ client' = [FetchUsersStart(client, PendingState(client).count) EXCEPT !.life = "mounted"]
    /\ UNCHANGED <<users, reqs, production>>
\* useEffect(() => { fetchUsers(count) }, []): runs once, after the first
\* commit, with the count of that render.
MountEffect ==
    /\ client.life = "rendered"
    /\ client' = [FetchUsersStart(client, client.view.count) EXCEPT !.life = "mounted"]
    /\ UNCHANGED <<users, reqs, production>>

\* A click on the counter button.
ClickCounter ==
    /\ Alive
    /\ client.clicks < MaxClicks
    /\ client' = [client EXCEPT !.queue = Append(@, IncCount), !.clicks = @ + 1]
    /\ UNCHANGED <<users, reqs, production>>

\* A variant of the click below that also posts the new user to the
\* service.
ClickAddUserPosting ==
    /\ Alive
    /\ client.adds < MaxAdds
    /\ \E row \in 1..Len(client.view.names) : \E now \in TimeValues :
           client' = [AddUserCall(client, [id |-> now, name |-> <<"New User">>])
                          EXCEPT !.sent = Append(@, <<"POST ", "/api/users">>)]
    /\ UNCHANGED <<users, reqs, production>>
\* A variant of the click below with one Add User button next to the
\* list instead of one per row.
ClickAddUserAnywhere ==
    /\ Alive
    /\ client.adds < MaxAdds
    /\ \E now \in TimeValues :
           client' = AddUserCall(client, [id |-> now, name |-> <<"New User">>])
    /\ UNCHANGED <<users, reqs, production>>
\* A click on the Add User button of a rendered row.
ClickAddUser ==
    /\ Alive
    /\ client.adds < MaxAdds
    /\ \E row \in 1..Len(client.view.names) : \E now \in TimeValues :
           client' = AddUserCall(client, [id |-> now, name |-> <<"New User">>])
    /\ UNCHANGED <<users, reqs, production>>

\* React renders the queued updates; pending effects run before a render.
Rerender ==
    /\ client.life = "mounted"
    /\ client.queue # <<>>
    /\ client' = Render(client)
    /\ UNCHANGED <<users, reqs, production>>

\* The fetch rejects: no answer arrived.
FetchRejected ==
    /\ client.fetchPc = "fetching"
    /\ client' = FetchUsersCatch(client)
    /\ UNCHANGED <<users, reqs, production>>

\* The fetch resolves with a response; the handler calls response.json().
FetchFulfilled ==
    /\ client.fetchPc = "fetching"
    /\ \E a \in 1..Len(Answers) :
           client' = [client EXCEPT !.fetchPc = "decoding", !.response = a]
    /\ UNCHANGED <<users, reqs, production>>

\* The body is not JSON: response.json() rejects.
JsonRejected ==
    /\ client.fetchPc = "decoding"
    /\ ~IsJson(Answers[client.response])
    /\ client' = FetchUsersCatch(client)
    /\ UNCHANGED <<users, reqs, production>>

\* response.json() resolves with the parsed body.
JsonFulfilled ==
    /\ client.fetchPc = "decoding"
    /\ IsJson(Answers[client.response])
    /\ client' = FetchUsersData(client, ResponseJson(Answers[client.response]))
    /\ UNCHANGED <<users, reqs, production>>

NextClient ==
    \/ Mount
    \/ MountEffect
    \/ ClickCounter
    \/ ClickAddUser
    \/ Rerender
    \/ FetchRejected
    \/ FetchFulfilled
    \/ JsonRejected
    \/ JsonFulfilled

SpecClient == Init /\ [][NextClient]_vars

-----------------------------------------------------------------------------
(* Properties *)

Requests == 1..Len(reqs)

\* This step runs the handler of request r, of the given kind, from its
\* start.
Handled(r, kind) ==
    /\ r \in Requests
    /\ reqs[r].kind = kind
    /\ reqs[r].pc = "pending"
    /\ reqs'[r].pc # "pending"

\* Request r, of the given kind, has been answered.
Answered(r, kind) ==
    r \in Requests /\ reqs[r].kind = kind /\ reqs[r].pc = "done"

\* POST requests that have been answered, and the id each was given.
AnsweredPosts == {r \in Requests : Answered(r, "postUser")}

AssignedId(r) == reqs[r].resp[1].body.id

\* C1: a POST /api/users followed by a GET /api/all-users returns a
\* collection one longer than before the POST, whose last element is the
\* record the POST returned and whose earlier elements are the previous
\* collection in the same order.
C1_PostThenAllUsers ==
    [][\A r \in Requests :
          Handled(r, "postUser") =>
              LET before == AllUsersResponse(users).body
                  after == AllUsersResponse(users').body
                  created == reqs'[r].resp[Len(reqs'[r].resp)].body
              IN  /\ Len(after) = Len(before) + 1
                  /\ after[Len(after)] = created
                  /\ SubSeq(after, 1, Len(before)) = before]_vars

\* A POST was answered and a GET /api/all-users answered after it shows
\* the record the POST returned as the third and last element.
C1_Witness ==
    \E p, g \in Requests :
        /\ Answered(p, "postUser")
        /\ Answered(g, "allUsers")
        /\ Len(reqs[g].resp[1].body) = Len(SeedUsers) + 1
        /\ reqs[g].resp[1].body[Len(SeedUsers) + 1] = reqs[p].resp[1].body

\* C2: POST requests handled one after another receive strictly
\* increasing ids: the id a POST receives is greater than the id of every
\* POST answered before it, so no two receive the same id.
C2_PostIdsIncrease ==
    [][\A r \in Requests :
          Handled(r, "postUser") =>
              \A q \in AnsweredPosts : reqs'[r].resp[1].body.id > AssignedId(q)]_vars

\* Two POSTs have been answered, one of them with a body that carries an
\* id of its own.
C2_Witness ==
    \E p, q \in AnsweredPosts :
        /\ AssignedId(p) < AssignedId(q)
        /\ "id" \in DOMAIN reqs[q].body

\* The ids two in-flight POSTs p and q receive when p's handler runs next
\* and q's handler right after it.
IdsInOrder(p, q) ==
    LET first == NewUser(users, reqs[p].body)
        second == NewUser(Push(users, first), reqs[q].body)
    IN  <<first.id, second.id>>

\* C3 as stated: two POSTs in flight together can be assigned the same id
\* (some order of running their handlers gives both the same id).
C3_RaceOnIdAssignment ==
    \A p, q \in Requests :
        (p # q /\ Pending(p, "postUser") /\ Pending(q, "postUser")) =>
            \/ IdsInOrder(p, q)[1] = IdsInOrder(p, q)[2]
            \/ IdsInOrder(q, p)[1] = IdsInOrder(q, p)[2]

\* C3, amended: POSTs in flight together are never assigned the same id:
\* the ids of answered POSTs are pairwise distinct, and the id a pending
\* POST would receive now differs from every id already assigned.
C3_NoRaceOnIdAssignment ==
    /\ \A p, q \in AnsweredPosts : p # q => AssignedId(p) # AssignedId(q)
    /\ \A p \in Requests : \A q \in AnsweredPosts :
           Pending(p, "postUser") => NewUser(users, reqs[p].body).id # AssignedId(q)

\* Two POSTs were in flight together: the one that arrived later was
\* handled first (it holds the smaller id), and both are answered.
C3_Witness ==
    \E p, q \in AnsweredPosts : p < q /\ AssignedId(q) < AssignedId(p)

\* The :id parameter names record u: its number is u's id.
Names(param, u) == IsNumeric(param) /\ StringToNumber(param) = u.id

\* C4: GET /api/users/:id for an id that a record has responds with
\* status 200 and the first such record in insertion order, with every
\* field the record holds (id, name, email, plaintext password); the
\* parameter "1" finds the record with id 1.
C4_GetUserFound ==
    [][\A r \in Requests :
          (Handled(r, "getUser") /\ \E i \in 1..Len(users) : Names(reqs[r].param, users[i])) =>
              LET i == CHOOSE i \in 1..Len(users) :
                           /\ Names(reqs[r].param, users[i])
                           /\ \A j \in 1..(i - 1) : ~Names(reqs[r].param, users[j])
                  out == reqs'[r].resp
              IN  /\ Len(out) = 1
                  /\ out[1].status = 200
                  /\ out[1].body.id = users[i].id
                  /\ \A k \in {"name", "email", "password"} :
                         users[i][k] # Undefined =>
                             k \in DOMAIN out[1].body /\ out[1].body[k] = users[i][k]
                  /\ reqs[r].param = <<"1">> => out[1].body.id = 1]_vars

\* GET /api/users/1 and GET /api/users/01 were both answered with John's
\* record, password included.
C4_Witness ==
    \E r, q \in Requests :
        /\ Answered(r, "getUser") /\ reqs[r].param = <<"1">>
        /\ Answered(q, "getUser") /\ reqs[q].param = <<"0", "1">>
        /\ reqs[r].resp[1].body = SeedUsers[1]
        /\ reqs[q].resp[1].body.password = <<"password123">>

\* C5: GET /api/users/:id for an id no record has responds with status
\* 200 and the body {error: "User not found"}, which has no user field,
\* and leaves the collection unchanged.
C5_GetUserNotFound ==
    [][\A r \in Requests :
          (Handled(r, "getUser") /\ \A i \in 1..Len(users) : ~Names(reqs[r].param, users[i])) =>
              /\ Len(reqs'[r].resp) = 1
              /\ reqs'[r].resp[1].status = 200
              /\ reqs'[r].resp[1].ctype = "json"
              /\ DOMAIN reqs'[r].resp[1].body = {"error"}
              /\ reqs'[r].resp[1].body.error = <<"User not found">>
              /\ users' = users]_vars

\* GET /api/users/0 and GET /api/users/1x were answered "User not found".
C5_Witness ==
    \E r, q \in Requests :
        /\ Answered(r, "getUser") /\ reqs[r].param = <<"0">>
        /\ Answered(q, "getUser") /\ reqs[q].param = <<"1", "x">>
        /\ DOMAIN reqs[r].resp[1].body = {"error"}
        /\ DOMAIN reqs[q].resp[1].body = {"error"}

\* The location the file handler's path names for a :filename parameter.
LocationOf(param) == Normalize(Segments(UploadPath(DecodeURIComponent(param))))

\* Nothing exists at the location: neither a file nor a directory.
Nonexistent(loc) == loc \notin FsFilePaths /\ loc \notin FsDirPaths

\* C6: in production mode, the response to GET /api/file/:filename for a
\* nonexistent file is a failure that holds neither a raw filesystem path
\* nor a stack trace.
C6_NoPathLeakInProduction ==
    production =>
        \A r \in Requests :
            (Answered(r, "getFile") /\ Nonexistent(LocationOf(reqs[r].param))) =>
                /\ reqs[r].resp[1].status >= 400
                /\ "path" \notin DOMAIN reqs[r].resp[1].body
                /\ "stack" \notin DOMAIN reqs[r].resp[1].body

\* C7: when the read fails, GET /api/file/:filename responds with status
\* 500 and a JSON body holding the error's message as `error`, its stack
\* trace as `stack` and its path as `path` (an error without a path, as
\* from reading a directory, gives a body without `path`); when the read
\* succeeds it responds with the file's bytes; either way exactly one
\* response is sent and the user collection is unchanged.
C7_FileResponse ==
    [][\A r \in Requests :
          Handled(r, "getFile") =>
              LET loc == LocationOf(reqs[r].param)
                  out == reqs'[r].resp
              IN  /\ Len(out) = 1
                  /\ users' = users
                  /\ IF out[1].ctype = "bytes"
                     THEN /\ loc \in FsFilePaths
                          /\ out[1].status = 200
                          /\ out[1].body = FileContent(loc)
                     ELSE /\ loc \notin FsFilePaths
                          /\ out[1].status = 500
                          /\ {"error", "stack"} \subseteq DOMAIN out[1].body
                          /\ DOMAIN out[1].body \subseteq {"error", "stack", "path"}
                          /\ out[1].body.stack =
                                 <<"Error: ">> \o out[1].body.error
                                     \o <<"\n    at Object.readFileSync (node:fs)">>
                          /\ Nonexistent(loc) =>
                                 /\ "path" \in DOMAIN out[1].body
                                 /\ out[1].body.path = reqs'[r].opened
                          /\ "path" \in DOMAIN out[1].body =>
                                 out[1].body.path = reqs'[r].opened]_vars

\* One file request was answered with the bytes of uploads/a and another
\* with status 500 and the path of the file that does not exist.
C7_Witness ==
    \E r, q \in Requests :
        /\ Answered(r, "getFile") /\ reqs[r].resp[1].ctype = "bytes"
        /\ reqs[r].resp[1].body = <<"contents of uploads/a">>
        /\ Answered(q, "getFile") /\ reqs[q].resp[1].status = 500
        /\ reqs[q].resp[1].body.path = <<".", "/", "uploads", "/", "b">>

\* C8: every file GET /api/file/:filename reads lies inside ./uploads,
\* whatever the filename parameter decodes to.
C8_ReadsStayInUploads ==
    \A r \in Requests :
        (Answered(r, "getFile") /\ reqs[r].resp[1].ctype = "bytes") =>
            InsideUploads(Normalize(Segments(reqs[r].opened)))

\* C9: GET /api/async-operation takes one of two branches: the promise
\* is fulfilled and the handler responds 200 with {data: "Success"}, or
\* the promise is rejected and the handler ends without any response.
C9_AsyncOperationBranches ==
    \A r \in Requests :
        reqs[r].kind = "asyncOperation" =>
            CASE reqs[r].pc = "pending" ->
                     reqs[r].promise.state = "none" /\ reqs[r].resp = <<>>
              [] reqs[r].pc = "awaiting" ->
                     reqs[r].promise.state \in {"fulfilled", "rejected"} /\ reqs[r].resp = <<>>
              [] reqs[r].pc = "done" ->
                     /\ reqs[r].promise.state = "fulfilled"
                     /\ reqs[r].resp = <<JsonResponse(200, [data |-> <<"Success">>])>>
              [] reqs[r].pc = "rejected" ->
                     reqs[r].promise.state = "rejected" /\ reqs[r].resp = <<>>

\* Both branches were taken: one request was answered with the success
\* payload, another ended in the exception with no response.
C9_Witness ==
    \E r, q \in Requests :
        /\ reqs[r].kind = "asyncOperation" /\ reqs[r].pc = "done"
        /\ reqs[q].kind = "asyncOperation" /\ reqs[q].pc = "rejected"
        /\ reqs[q].resp = <<>>

\* The handler of request r has run to its end.
Finished(r) == reqs[r].pc \in {"done", "rejected"}

\* C10: every request path ends with a response: a request whose handler
\* has run to its end has been answered with exactly one response.
C10_EveryPathResponds ==
    \A r \in Requests : Finished(r) => Len(reqs[r].resp) = 1

\* The fields of a POST body the handler reads.
BodyFields == {"name", "email", "password"}

\* C16: POST /api/users validates nothing and checks no duplicate: for
\* every body, also one that lacks name, email or password or repeats an
\* existing name or email, the request succeeds with status 200, appends
\* exactly one record holding the body's name, email and password as
\* given, and responds with that record.
C16_PostUnvalidated ==
    [][\A r \in Requests :
          Handled(r, "postUser") =>
              LET body == reqs[r].body
                  out == reqs'[r].resp
                  added == users'[Len(users')]
              IN  /\ Len(users') = Len(users) + 1
                  /\ SubSeq(users', 1, Len(users)) = users
                  /\ \A k \in BodyFields :
                         IF k \in DOMAIN body
                         THEN added[k] = body[k]
                         ELSE added[k] = Undefined
                  /\ Len(out) = 1
                  /\ out[1].status = 200
                  /\ out[1].ctype = "json"
                  /\ out[1].body.id = added.id
                  /\ \A k \in BodyFields :
                         IF k \in DOMAIN body
                         THEN k \in DOMAIN out[1].body /\ out[1].body[k] = body[k]
                         ELSE k \notin DOMAIN out[1].body]_vars

\* A POST with an empty body and a POST repeating John's name and email
\* were both answered, and both records are stored.
C16_Witness ==
    \E p, q \in AnsweredPosts :
        /\ reqs[p].body = NoBody
        /\ DOMAIN reqs[p].resp[1].body = {"id"}
        /\ "name" \in DOMAIN reqs[q].body
        /\ reqs[q].body["name"] = SeedUsers[1].name
        /\ reqs[q].resp[1].body.email = SeedUsers[1].email
        /\ Len(users) = Len(SeedUsers) + 2

\* C17: GET /api/all-users responds with the whole collection: every
\* stored record, in insertion order, with every field it holds, the
\* password included.
C17_AllUsersFull ==
    [][\A r \in Requests :
          Handled(r, "allUsers") =>
              LET out == reqs'[r].resp
              IN  /\ Len(out) = 1
                  /\ out[1].status = 200
                  /\ Len(out[1].body) = Len(users)
                  /\ \A i \in 1..Len(users) :
                         /\ out[1].body[i].id = users[i].id
                         /\ \A k \in BodyFields :
                                IF users[i][k] # Undefined
                                THEN /\ k \in DOMAIN out[1].body[i]
                                     /\ out[1].body[i][k] = users[i][k]
                                ELSE k \notin DOMAIN out[1].body[i]]_vars

\* GET /api/all-users was answered after a POST: three records, the two
\* seed records first, each with its password.
C17_Witness ==
    \E g \in Requests :
        /\ Answered(g, "allUsers")
        /\ Len(reqs[g].resp[1].body) = Len(SeedUsers) + 1
        /\ reqs[g].resp[1].body[1] = SeedUsers[1]
        /\ reqs[g].resp[1].body[2].password = SeedUsers[2].password

\* C18: the record at position i has id i, so the ids of the stored
\* records are pairwise distinct.
C18_IdIsPosition ==
    /\ \A i \in 1..Len(users) : users[i].id = i
    /\ \A i, j \in 1..Len(users) : i # j => users[i].id # users[j].id

\* Two POSTs have been handled, one of them with an id in its body.
C18_Witness ==
    /\ Len(users) = Len(SeedUsers) + 2
    /\ \E p \in AnsweredPosts : "id" \in DOMAIN reqs[p].body

\* C19: the collection is append-only: in every step the collection
\* before is a prefix of the collection after.
C19_AppendOnly ==
    [][/\ Len(users') >= Len(users)
       /\ SubSeq(users', 1, Len(users)) = users]_vars

\* The collection has grown, and requests of other kinds were handled.
C19_Witness ==
    /\ Len(users) > Len(SeedUsers)
    /\ \E r \in Requests : reqs[r].kind # "postUser" /\ reqs[r].pc # "pending"

\* C20: a step of the handler of any endpoint other than POST /api/users
\* leaves the collection unchanged.
C20_OnlyPostWrites ==
    [][\A r \in Requests :
          (reqs[r].kind # "postUser" /\ reqs'[r].pc # reqs[r].pc) => users' = users]_vars

\* An async request ended in the exception and a file request failed.
C20_Witness ==
    \E r, q \in Requests :
        /\ reqs[r].kind = "asyncOperation" /\ reqs[r].pc = "rejected"
        /\ Answered(q, "getFile") /\ reqs[q].resp[1].status = 500
        /\ users = SeedUsers

-----------------------------------------------------------------------------
(* Properties of the client *)

\* fetchUsers has been called and has not reached setLoading(false).
FetchInFlight == client.fetchPc \in {"fetching", "decoding"}

\* C11: `loading` is true only between fetch start and fetch settle: the
\* loading state, with the setter calls made so far applied, is true
\* exactly from the call of fetchUsers until the fetch or the decoding of
\* its body succeeds or fails; the rendered value follows it at the next
\* render.
C11_LoadingWindow ==
    client.life # "crashed" =>
        /\ PendingState(client).loading <=> FetchInFlight
        /\ client.queue = <<>> => (client.loading <=> FetchInFlight)
        /\ client.view.loading = client.loading

\* The fetch has succeeded with a list, the list is rendered and loading
\* is false again.
C11_Witness ==
    /\ client.life = "mounted"
    /\ client.fetchPc = "settled"
    /\ client.queue = <<>>
    /\ Len(client.view.names) > 0
    /\ ~client.loading

\* C12: after addUser the rendered list is one longer, the previous rows
\* unchanged and the new row last, with no other state change needed:
\* once React has nothing left to render, the view shows the users state.
C12_AddUserRendered ==
    (client.life = "mounted" /\ client.queue = <<>>) =>
        client.view.names = RenderOutput(HookState(client), client.heap).names

\* The fetch ends in the catch block in this step: the fetch rejected,
\* or the body it got is not JSON.
FetchFails ==
    /\ client'.fetchPc = "settled"
    /\ \/ client.fetchPc = "fetching"
       \/ client.fetchPc = "decoding" /\ ~IsJson(Answers[client.response])

\* C13: a failed mount fetch is swallowed: nothing is thrown (the
\* component stays as it is), setLoading(false) is the only state update
\* made, so users and count keep their values, no other state records the
\* error, and loading ends false.
C13_FailureSwallowed ==
    [][FetchFails =>
          /\ client'.life = client.life
          /\ client'.queue = Append(client.queue, SetLoading(FALSE))
          /\ Len(client'.heap) = Len(client.heap)
          /\ PendingState(client').usersRef = PendingState(client).usersRef
          /\ PendingState(client').count = PendingState(client).count
          /\ ~PendingState(client').loading
          /\ DOMAIN client' = DOMAIN client]_vars

\* The body was a page, not JSON; after the render the list is still the
\* initial empty array, the clicks made are counted and loading is false.
C13_Witness ==
    /\ client.fetchPc = "settled"
    /\ client.response # 0
    /\ ~IsJson(Answers[client.response])
    /\ client.queue = <<>>
    /\ client.usersRef = 1
    /\ client.count = 1
    /\ ~client.loading

\* C14: addUser changes only the view's state: a click on Add User sends
\* no request, and leaves the service's collection and its requests as
\* they were.
C14_AddUserIsLocal ==
    [][client'.adds # client.adds =>
          /\ client'.sent = client.sent
          /\ users' = users
          /\ reqs' = reqs]_vars

\* Add User has been clicked twice; the only request sent is the mount
\* fetch and the service's collection is the seed.
C14_Witness ==
    /\ client.adds = 2
    /\ Len(client.sent) = 1
    /\ users = SeedUsers

\* C15: one fetch per mount, for GET /api/users/0: nothing is sent before
\* the mount effect, and from then on the requests sent are that one
\* request, whatever is clicked or rendered and however the fetch ends.
C15_OneFetchPerMount ==
    IF client.life \in {"unmounted", "rendered"}
    THEN client.sent = <<>>
    ELSE client.sent = << <<"/api/users/", "0">> >>

\* The counter was clicked before the effect ran and the fetch failed:
\* still one request, for id 0.
C15_Witness ==
    /\ client.fetchPc = "settled"
    /\ client.response = 0
    /\ client.queue = <<>>
    /\ client.count = 2
    /\ Len(client.sent) = 1

\* The value the users state holds, with the setUsers calls made so far
\* applied.
UsersValue == client.heap[PendingState(client).usersRef]

\* C21: the users state is always a list, so rendering the list is always
\* defined: whatever JSON body answered the mount fetch, users refers to
\* an array and no render has thrown.
C21_UsersIsList ==
    /\ UsersValue.type = "array"
    /\ client.life # "crashed"

\* The first cell of the heap is the initial empty array of useState([]);
\* every later cell is a value a fetch resolved to.
FromFetch(ref) == ref > 1

\* C22: Add User can be clicked only where the rendered list has a row:
\* the click is enabled only in such states, and every click happens
\* after the fetch has settled, on a list that came from the fetch (never
\* on the initial empty list) and held an entry before the click.
C22_AddUserNeedsRow ==
    /\ [](ENABLED ClickAddUser => Len(client.view.names) > 0)
    /\ [][client'.adds # client.adds =>
             /\ Len(client.view.names) > 0
             /\ client.fetchPc = "settled"
             /\ FromFetch(client.usersRef)
             /\ Len(client.heap[client.usersRef].items) > 0
             /\ client'.heap[1] = ArrayValue(<<>>)]_vars

\* Add User was clicked on a row of the fetched list of two users.
C22_Witness ==
    /\ client.adds = 1
    /\ FromFetch(client.usersRef)
    /\ Len(client.view.names) = 2
    /\ Len(client.heap[client.usersRef].items) = 3

\* The calls of setCount waiting for the next render.
QueuedClicks == SelectSeq(client.queue, LAMBDA u : u.hook = "count")

\* A click on the counter button happens in this step.
CounterClicked == client'.clicks # client.clicks

\* C23: each click on the counter adds exactly one to count, batched or
\* not: count, with the queued calls applied, is the number of clicks,
\* and so is the rendered count once nothing is left to render, for as
\* long as the component is on the page; a click leaves users (the
\* reference and every object) and loading as they are.
C23_CounterCounts ==
    /\ [](client.life # "crashed" =>
             /\ PendingState(client).count = client.clicks
             /\ client.count + Len(QueuedClicks) = client.clicks
             /\ client.view.count = client.count
             /\ client.queue = <<>> => client.view.count = client.clicks)
    /\ [][CounterClicked =>
             /\ client'.clicks = client.clicks + 1
             /\ PendingState(client').count = PendingState(client).count + 1
             /\ PendingState(client').usersRef = PendingState(client).usersRef
             /\ PendingState(client').loading = PendingState(client).loading
             /\ client'.usersRef = client.usersRef
             /\ client'.loading = client.loading
             /\ client'.heap = client.heap]_vars

\* Two clicks are batched before a render, and count will be two.
C23_Witness ==
    /\ Len(QueuedClicks) = 2
    /\ client.count = 0
    /\ PendingState(client).count = 2

=============================================================================
